---- MODULE Spec2Model ----
(***************************************************************************)
(* Boiler relay firmware (ESP32_backend_caldera.ino).  The file holds two  *)
(* sketches: the command relay ("PROYECTO: Control remoto de CALDERA",     *)
(* lines 1-559) and the thermostat controller ("Control MASTER de          *)
(* CALDERA", lines 561-898).  The temperature probes that feed the         *)
(* thermostat are in src/unnamed: part_000 (the sensor_update probe, two   *)
(* copies of one sketch) and part_001 (the telemetry probe).  A device     *)
(* runs exactly one sketch; the variable `variant` says which.  The        *)
(* sketches use the same global names (relayState, apMode, webSocket,      *)
(* lastMeasureTime), so the model shares the variables.                    *)
(*                                                                         *)
(* Temperatures are floats in the source; the model counts tenths of a     *)
(* degree (21.5 -> 215), which keeps the order the control law compares.   *)
(* millis() is a 32-bit counter of milliseconds; the model counts quanta   *)
(* of 8 ms (8 divides 2000, 5000 and 20000), so the wrap of the counter is *)
(* at 2^29 quanta and every unsigned difference keeps its meaning.         *)
(***************************************************************************)
EXTENDS Integers, Sequences, FiniteSets, TLC

VARIABLES
  variant,            \* which sketch is flashed: "relay", "thermo", "sensor" or "telemetry"
  pc,                 \* position: "setup", "loop" (webSocket.loop / control check), "debug"
  apMode,             \* bool apMode
  savedCreds,         \* EEPROM holds a non-empty ssid and password
  connected,          \* webSocket.isConnected()
  relayState,         \* bool relayState
  pin,                \* level driven on RELE_PIN
  currentMode,        \* Mode currentMode
  targetTemp,         \* float targetTemp
  currentSensorTemp,  \* float currentSensorTemp
  hasSensorData,      \* bool hasSensorData
  lastSensorUpdate,   \* unsigned long lastSensorUpdate
  now,                \* millis()
  lastCheck,          \* static unsigned long lastCheck (loop)
  lastDebug,          \* static unsigned long lastDebug (loop)
  lastMeasureTime,    \* unsigned long lastMeasureTime (probes)
  out,                \* frames handed to webSocket.sendTXT by the last step, in order
  ev,                 \* the last step: its kind, its inbound frame, the relay before it
  evalSinceConnect,   \* history: runControlLogic has run since the link last connected
  relayEverOn,        \* history: the thermostat's relay has been On since the last boot
  advances            \* number of clock advances made so far (bounded)

vars == <<variant, pc, apMode, savedCreds, connected, relayState, pin, currentMode,
          targetTemp, currentSensorTemp, hasSensorData, lastSensorUpdate, now,
          lastCheck, lastDebug, lastMeasureTime, out, ev, evalSinceConnect, relayEverOn,
          advances>>

----------------------------------------------------------------------------
(* Program constants *)

SENSOR_TIMEOUT_MS == 20000
CHECK_INTERVAL_MS == 2000
DEBUG_INTERVAL_MS == 5000
INITIAL_TARGET == 215
ID_PLACA == "esp32_01"
MODE_MANUAL == "MANUAL"
MODE_AUTO == "AUTO"
MEASURE_INTERVAL_MS == 5000
ID_PLACA_SONDA == "esp32_03"

Quantum == 2^3
MillisMod == 2^29

(* Bounds of the exploration *)
MaxAdvance == 2
Deltas == {3000, 21000}
Temps == {200, 215}
Humidities == {500}
Targets == {190}
(* millis() 3 s before its counter wraps *)
WrapEve == MillisMod - (3000 \div Quantum)

LiveClock == {0, 3000 \div Quantum}

----------------------------------------------------------------------------
(* variant: the difference taken in a wider signed type, without the wrap *)
Sub32_Signed(a, b) == a - b

(* unsigned long subtraction, as in millis() - lastCheck *)
Sub32(a, b) == (a - b + MillisMod) % MillisMod

Elapsed(a, b, ms) == Sub32(a, b) > (ms \div Quantum)

----------------------------------------------------------------------------
(* Inbound frames.  A frame is what deserializeJson makes of the text:     *)
(* syntax says whether it parsed and whether the root is an object; each   *)
(* field is absent, present with the wrong JSON type, or present with a    *)
(* value.  Markers in angle brackets are not values a frame can carry.     *)

ABSENT == "<absent>"
NONSTRING == "<nonstring>"
NONNUM == "<nonnum>"

NoNum == [k |-> ABSENT, n |-> 0]
Num(n) == [k |-> "num", n |-> n]
BadNum == [k |-> NONNUM, n |-> 0]

Frame(sy, ty, to, dev, act, id, temp, mode, tgt) ==
  [syntax |-> sy, type |-> ty, to |-> to, device |-> dev, action |-> act, id |-> id,
   temperature |-> temp, humidity |-> NoNum, mode |-> mode, target_temp |-> tgt]

NoFrame == Frame("none", ABSENT, ABSENT, ABSENT, ABSENT, NoNum, NoNum, ABSENT, NoNum)

Plain(sy, ty, to) == Frame(sy, ty, to, ABSENT, ABSENT, NoNum, NoNum, ABSENT, NoNum)

(* JsonVariant::as<float>() and as<int>(): 0 unless the value is a number *)
AsNumber(f) == IF f.k = "num" THEN f.n ELSE 0

(* JsonVariant::as<const char*>(): NULL unless the value is a string *)
IsString(f) == f # ABSENT /\ f # NONSTRING

ContainsKey(f) == f # ABSENT
ContainsNum(f) == f.k # ABSENT

Tos == {ABSENT, NONSTRING, ID_PLACA, "esp32_99"}

RelayFrames ==
  {Plain("invalid", ABSENT, ABSENT), Plain("nonobject", ABSENT, ABSENT)}
  \cup {Plain("object", ty, to) :
          ty \in {ABSENT, NONSTRING, "ping", "pong", "registered", "get_state", "reboot"},
          to \in Tos}
  \cup {Frame("object", "command", to, dev, act, id, NoNum, ABSENT, NoNum) :
          to \in {ABSENT, ID_PLACA, "esp32_99"},
          dev \in {ABSENT, NONSTRING, "relay", "led"},
          act \in {ABSENT, NONSTRING, "on", "off", "toggle", "status", "blink"},
          id \in {NoNum, Num(0), Num(1), BadNum}}

ProbeFrames ==
  {Plain("invalid", ABSENT, ABSENT), Plain("nonobject", ABSENT, ABSENT)}
  \cup {Plain("object", ty, ABSENT) : ty \in {ABSENT, NONSTRING, "ping", "registered"}}

ThermoFrames ==
  {Plain("invalid", ABSENT, ABSENT), Plain("nonobject", ABSENT, ABSENT)}
  \cup {Plain("object", ty, ABSENT) : ty \in {ABSENT, NONSTRING, "ping", "command"}}
  \cup {Frame("object", "sensor_update", ABSENT, ABSENT, ABSENT, NoNum, t, ABSENT, NoNum) :
          t \in {NoNum, BadNum} \cup {Num(n) : n \in Temps}}
  \cup {Frame("object", "config_update", ABSENT, ABSENT, ABSENT, NoNum, NoNum, m, t) :
          m \in {ABSENT, NONSTRING, "AUTO", "MANUAL", "auto"},
          t \in {NoNum} \cup {Num(n) : n \in Targets}}
  \cup {Frame("object", "config_update", ABSENT, ABSENT, ABSENT, NoNum, NoNum, ABSENT, BadNum)}
  \cup {Frame("object", "sensor_update", to, ABSENT, ABSENT, NoNum, Num(200), ABSENT, NoNum) :
          to \in {ID_PLACA, "esp32_99"}}
  \cup {Frame("object", "config_update", "esp32_99", ABSENT, ABSENT, NoNum, NoNum, "AUTO", NoNum)}

----------------------------------------------------------------------------
(* Outbound frames *)

OutFrame(ty, st, mo, rs, tt) ==
  [type |-> ty, state |-> st, mode |-> mo, relay_state |-> rs, target_temp |-> tt,
   id |-> ABSENT, from |-> ABSENT, client_id |-> ABSENT,
   temperature |-> NoNum, humidity |-> NoNum, temp |-> NoNum, hum |-> NoNum]

RegisterMsg == [OutFrame("register", "-", "-", "-", 0) EXCEPT !.id = ID_PLACA]
PongMsg == OutFrame("pong", "-", "-", "-", 0)
StateMsg(on) == OutFrame("state", IF on THEN "on" ELSE "off", "-", "-", 0)
StatusUpdate(s) ==
  OutFrame("status_update", "-", s.currentMode,
           IF s.relayState THEN "ON" ELSE "OFF", s.targetTemp)

(* webSocket.sendTXT: the frame leaves only on an open link *)
sendTXT(s, m) == IF s.connected THEN [s EXCEPT !.out = Append(@, m)] ELSE s

----------------------------------------------------------------------------
(* The program state a handler works on: the globals, the clock it reads,  *)
(* the frames it has sent so far, and whether it called runControlLogic    *)
(* or ran into the null dereference of handleMessage.                      *)

Cur ==
  [relayState |-> relayState, pin |-> pin, connected |-> connected,
   currentMode |-> currentMode, targetTemp |-> targetTemp,
   currentSensorTemp |-> currentSensorTemp, hasSensorData |-> hasSensorData,
   lastSensorUpdate |-> lastSensorUpdate, now |-> now,
   out |-> <<>>, evaluated |-> FALSE, crashed |-> FALSE]

ActiveLevel(on) == IF on THEN "HIGH" ELSE "LOW"

----------------------------------------------------------------------------
(* Command relay sketch (lines 1-559) *)

(* variant: the state is recorded without driving the pin *)
setRelayCmd_VarOnly(s, on) == [s EXCEPT !.relayState = on]

(* setRelay, lines 191-202: drives the pin and records the state, always *)
setRelayCmd(s, on) == [s EXCEPT !.pin = ActiveLevel(on), !.relayState = on]

(* variant: the reply carries the opposite of the relay value *)
sendState_Inverted(s) == sendTXT(s, StateMsg(~s.relayState))

(* sendState, lines 228-243 *)
sendState(s) == sendTXT(s, StateMsg(s.relayState))

(* isForMe, lines 250-255 *)
isForMe(m) ==
  IF ~ContainsKey(m.to) THEN TRUE
  ELSE IsString(m.to) /\ m.to = ID_PLACA

(* variant: the reply is built before the pin is driven *)
applyAction_ReplyFirst(s, action) ==
  IF action = "on" THEN setRelayCmd(sendState(s), TRUE)
  ELSE IF action = "off" THEN setRelayCmd(sendState(s), FALSE)
  ELSE IF action = "toggle" THEN setRelayCmd(sendState(s), ~s.relayState)
  ELSE IF action = "status" THEN sendState(s)
  ELSE s

(* variant: toggle writes the current value back *)
applyAction_ToggleSame(s, action) ==
  IF action = "on" THEN sendState(setRelayCmd(s, TRUE))
  ELSE IF action = "off" THEN sendState(setRelayCmd(s, FALSE))
  ELSE IF action = "toggle" THEN sendState(setRelayCmd(s, s.relayState))
  ELSE IF action = "status" THEN sendState(s)
  ELSE s

(* variant: status drives the relay off before it answers *)
applyAction_StatusResets(s, action) ==
  IF action = "on" THEN sendState(setRelayCmd(s, TRUE))
  ELSE IF action = "off" THEN sendState(setRelayCmd(s, FALSE))
  ELSE IF action = "toggle" THEN sendState(setRelayCmd(s, ~s.relayState))
  ELSE IF action = "status" THEN sendState(setRelayCmd(s, FALSE))
  ELSE s

(* the action chain of a command, lines 368-383 *)
applyAction(s, action) ==
  IF action = "on" THEN sendState(setRelayCmd(s, TRUE))
  ELSE IF action = "off" THEN sendState(setRelayCmd(s, FALSE))
  ELSE IF action = "toggle" THEN sendState(setRelayCmd(s, ~s.relayState))
  ELSE IF action = "status" THEN sendState(s)
  ELSE s

(* variant: the id of the command is not tested *)
handleIncomingMessage_AnyId(s, m) ==
  IF m.syntax # "object" THEN s
  ELSE IF ~ContainsKey(m.type) THEN s
  ELSE IF ~IsString(m.type) THEN s
  ELSE IF m.type \in {"ping", "pong", "registered"} THEN s
  ELSE IF ~isForMe(m) THEN s
  ELSE IF m.type = "get_state" THEN sendState(s)
  ELSE IF m.type = "command" THEN
    IF ~ContainsKey(m.device) \/ ~ContainsKey(m.action) THEN s
    ELSE IF ~IsString(m.device) \/ ~IsString(m.action) THEN s
    ELSE IF m.device # "relay" THEN s
    ELSE applyAction(s, m.action)
  ELSE s

(* handleIncomingMessage, lines 257-389 *)
handleIncomingMessage(s, m) ==
  IF m.syntax # "object" THEN s
  ELSE IF ~ContainsKey(m.type) THEN s
  ELSE IF ~IsString(m.type) THEN s
  ELSE IF m.type \in {"ping", "pong", "registered"} THEN s
  ELSE IF ~isForMe(m) THEN s
  ELSE IF m.type = "get_state" THEN sendState(s)
  ELSE IF m.type = "command" THEN
    IF ~ContainsKey(m.device) \/ ~ContainsKey(m.action) THEN s
    ELSE IF ~IsString(m.device) \/ ~IsString(m.action) THEN s
    ELSE IF m.device # "relay" \/ (IF ContainsNum(m.id) THEN AsNumber(m.id) ELSE 0) # 0 THEN s
    ELSE applyAction(s, m.action)
  ELSE s

(* variant: on connect the state goes out before the register *)
webSocketEventCmd_StateFirst(s, type, m) ==
  IF type = "CONNECTED" THEN sendTXT(sendState(s), RegisterMsg)
  ELSE IF type = "TEXT" THEN handleIncomingMessage(s, m)
  ELSE IF type = "DISCONNECTED" THEN setRelayCmd(s, FALSE)
  ELSE s

(* webSocketEvent, lines 394-441 *)
webSocketEventCmd(s, type, m) ==
  IF type = "CONNECTED" THEN sendState(sendTXT(s, RegisterMsg))
  ELSE IF type = "TEXT" THEN handleIncomingMessage(s, m)
  ELSE IF type = "DISCONNECTED" THEN setRelayCmd(s, FALSE)
  ELSE s

(* the Wi-Fi condition of setup, lines 519-526: casa, then movil, then the *)
(* stored credentials, with the short circuits of && and ||               *)
setupEntersAP(casaOk, movilOk, stored, storedOk) ==
  ~casaOk /\ ~movilOk /\ ~(~stored \/ ~storedOk)

----------------------------------------------------------------------------
(* Thermostat sketch (lines 561-898) *)

(* variant: the write is reported whether or not it changes the relay *)
setRelayThermo_AlwaysPush(s, on) ==
  LET s1 == [s EXCEPT !.pin = ActiveLevel(on), !.relayState = on]
  IN IF s1.connected THEN sendTXT(s1, StatusUpdate(s1)) ELSE s1

(* variant: the report of a change is handed over whatever the link state *)
setRelayThermo_PushUnlinked(s, on) ==
  IF on # s.relayState
  THEN LET s1 == [s EXCEPT !.pin = ActiveLevel(on), !.relayState = on]
       IN [s1 EXCEPT !.out = Append(@, StatusUpdate(s1))]
  ELSE s

(* setRelay, lines 624-644: acts only on a change, and then reports it *)
setRelayThermo(s, on) ==
  IF on # s.relayState
  THEN LET s1 == [s EXCEPT !.pin = ActiveLevel(on), !.relayState = on]
       IN IF s1.connected THEN sendTXT(s1, StatusUpdate(s1)) ELSE s1
  ELSE s

(* variant: no fail-safe branch for a closed link *)
runControlLogic_NoLinkCheck(s0) ==
  LET s == [s0 EXCEPT !.evaluated = TRUE] IN
  IF s.currentMode = MODE_MANUAL THEN setRelayThermo(s, FALSE)
  ELSE IF Elapsed(s.now, s.lastSensorUpdate, SENSOR_TIMEOUT_MS) THEN
    [(IF s.relayState THEN setRelayThermo(s, FALSE) ELSE s) EXCEPT !.hasSensorData = FALSE]
  ELSE IF s.hasSensorData THEN
    IF s.currentSensorTemp < s.targetTemp
    THEN setRelayThermo(s, TRUE)
    ELSE setRelayThermo(s, FALSE)
  ELSE s

(* variant: the comparison with the target is not strict *)
runControlLogic_NonStrict(s0) ==
  LET s == [s0 EXCEPT !.evaluated = TRUE] IN
  IF ~s.connected THEN
    IF s.relayState THEN setRelayThermo(s, FALSE) ELSE s
  ELSE IF s.currentMode = MODE_MANUAL THEN setRelayThermo(s, FALSE)
  ELSE IF Elapsed(s.now, s.lastSensorUpdate, SENSOR_TIMEOUT_MS) THEN
    [(IF s.relayState THEN setRelayThermo(s, FALSE) ELSE s) EXCEPT !.hasSensorData = FALSE]
  ELSE IF s.hasSensorData THEN
    IF s.currentSensorTemp <= s.targetTemp
    THEN setRelayThermo(s, TRUE)
    ELSE setRelayThermo(s, FALSE)
  ELSE s

(* variant: the age of the reading is not tested *)
runControlLogic_NoTimeout(s0) ==
  LET s == [s0 EXCEPT !.evaluated = TRUE] IN
  IF ~s.connected THEN
    IF s.relayState THEN setRelayThermo(s, FALSE) ELSE s
  ELSE IF s.currentMode = MODE_MANUAL THEN setRelayThermo(s, FALSE)
  ELSE IF s.hasSensorData THEN
    IF s.currentSensorTemp < s.targetTemp
    THEN setRelayThermo(s, TRUE)
    ELSE setRelayThermo(s, FALSE)
  ELSE s

(* variant: Manual returns without touching the relay *)
runControlLogic_ManualHold(s0) ==
  LET s == [s0 EXCEPT !.evaluated = TRUE] IN
  IF ~s.connected THEN
    IF s.relayState THEN setRelayThermo(s, FALSE) ELSE s
  ELSE IF s.currentMode = MODE_MANUAL THEN s
  ELSE IF Elapsed(s.now, s.lastSensorUpdate, SENSOR_TIMEOUT_MS) THEN
    [(IF s.relayState THEN setRelayThermo(s, FALSE) ELSE s) EXCEPT !.hasSensorData = FALSE]
  ELSE IF s.hasSensorData THEN
    IF s.currentSensorTemp < s.targetTemp
    THEN setRelayThermo(s, TRUE)
    ELSE setRelayThermo(s, FALSE)
  ELSE s

(* variant: the mode is not tested *)
runControlLogic_IgnoreMode(s0) ==
  LET s == [s0 EXCEPT !.evaluated = TRUE] IN
  IF ~s.connected THEN
    IF s.relayState THEN setRelayThermo(s, FALSE) ELSE s
  ELSE IF Elapsed(s.now, s.lastSensorUpdate, SENSOR_TIMEOUT_MS) THEN
    [(IF s.relayState THEN setRelayThermo(s, FALSE) ELSE s) EXCEPT !.hasSensorData = FALSE]
  ELSE IF s.hasSensorData THEN
    IF s.currentSensorTemp < s.targetTemp
    THEN setRelayThermo(s, TRUE)
    ELSE setRelayThermo(s, FALSE)
  ELSE s

(* variant: the timeout branch switches off but keeps the reading flagged valid *)
runControlLogic_KeepFlag(s0) ==
  LET s == [s0 EXCEPT !.evaluated = TRUE] IN
  IF ~s.connected THEN
    IF s.relayState THEN setRelayThermo(s, FALSE) ELSE s
  ELSE IF s.currentMode = MODE_MANUAL THEN setRelayThermo(s, FALSE)
  ELSE IF Elapsed(s.now, s.lastSensorUpdate, SENSOR_TIMEOUT_MS) THEN
    IF s.relayState THEN setRelayThermo(s, FALSE) ELSE s
  ELSE IF s.hasSensorData THEN
    IF s.currentSensorTemp < s.targetTemp
    THEN setRelayThermo(s, TRUE)
    ELSE setRelayThermo(s, FALSE)
  ELSE s

(* runControlLogic, lines 649-683 *)
runControlLogic(s0) ==
  LET s == [s0 EXCEPT !.evaluated = TRUE] IN
  IF ~s.connected THEN
    IF s.relayState THEN setRelayThermo(s, FALSE) ELSE s
  ELSE IF s.currentMode = MODE_MANUAL THEN setRelayThermo(s, FALSE)
  ELSE IF Elapsed(s.now, s.lastSensorUpdate, SENSOR_TIMEOUT_MS) THEN
    [(IF s.relayState THEN setRelayThermo(s, FALSE) ELSE s) EXCEPT !.hasSensorData = FALSE]
  ELSE IF s.hasSensorData THEN
    IF s.currentSensorTemp < s.targetTemp
    THEN setRelayThermo(s, TRUE)
    ELSE setRelayThermo(s, FALSE)
  ELSE s

(* strcmp(m, "AUTO") with m == NULL (mode present but not a string) is     *)
(* undefined: the read of address 0 traps and the board restarts, or it    *)
(* yields bytes that compare equal or unequal.  A frame that does not      *)
(* reach that strcmp has the one outcome "differ".                         *)
NullStrcmp(m) ==
  IF m.syntax = "object" /\ m.type = "config_update" /\ m.mode = NONSTRING
  THEN {"crash", "equal", "differ"}
  ELSE {"differ"}

(* the config_update branch up to runControlLogic, lines 725-734 *)
applyConfig(s, m, u) ==
  LET s1 == IF ContainsKey(m.mode)
            THEN IF IsString(m.mode)
                 THEN [s EXCEPT !.currentMode =
                          IF m.mode = "AUTO" THEN MODE_AUTO ELSE MODE_MANUAL]
                 ELSE IF u = "crash" THEN [s EXCEPT !.crashed = TRUE]
                 ELSE [s EXCEPT !.currentMode =
                          IF u = "equal" THEN MODE_AUTO ELSE MODE_MANUAL]
            ELSE s
  IN IF s1.crashed THEN s1
     ELSE IF ContainsNum(m.target_temp)
          THEN [s1 EXCEPT !.targetTemp = AsNumber(m.target_temp)]
          ELSE s1

(* variant: a frame without a string type is taken for a sensor_update *)
handleMessage_DefaultType(s, m, u) ==
  IF m.syntax = "invalid" THEN s
  ELSE IF m.syntax # "object" \/ ~IsString(m.type) \/ m.type = "sensor_update" THEN
    runControlLogic([s EXCEPT !.currentSensorTemp = AsNumber(m.temperature),
                              !.hasSensorData = TRUE,
                              !.lastSensorUpdate = s.now])
  ELSE IF m.type = "config_update" THEN
    LET s1 == applyConfig(s, m, u) IN
    IF s1.crashed THEN s1
    ELSE LET s2 == runControlLogic(s1) IN sendTXT(s2, StatusUpdate(s2))
  ELSE IF m.type = "ping" THEN sendTXT(s, PongMsg)
  ELSE s

(* variant: the status of a config_update is sent before the evaluation *)
handleMessage_StatusBeforeEval(s, m, u) ==
  IF m.syntax = "invalid" THEN s
  ELSE IF m.syntax # "object" \/ ~IsString(m.type) THEN s
  ELSE IF m.type = "sensor_update" THEN
    runControlLogic([s EXCEPT !.currentSensorTemp = AsNumber(m.temperature),
                              !.hasSensorData = TRUE,
                              !.lastSensorUpdate = s.now])
  ELSE IF m.type = "config_update" THEN
    LET s1 == applyConfig(s, m, u) IN
    IF s1.crashed THEN s1
    ELSE runControlLogic(sendTXT(s1, StatusUpdate(s1)))
  ELSE IF m.type = "ping" THEN sendTXT(s, PongMsg)
  ELSE s

(* variant: a config_update is applied and reported without a control evaluation *)
handleMessage_ConfigNoEval(s, m, u) ==
  IF m.syntax = "invalid" THEN s
  ELSE IF m.syntax # "object" \/ ~IsString(m.type) THEN s
  ELSE IF m.type = "sensor_update" THEN
    runControlLogic([s EXCEPT !.currentSensorTemp = AsNumber(m.temperature),
                              !.hasSensorData = TRUE,
                              !.lastSensorUpdate = s.now])
  ELSE IF m.type = "config_update" THEN
    LET s1 == applyConfig(s, m, u) IN
    IF s1.crashed THEN s1
    ELSE sendTXT(s1, StatusUpdate(s1))
  ELSE IF m.type = "ping" THEN sendTXT(s, PongMsg)
  ELSE s

(* handleMessage, lines 698-752 *)
handleMessage(s, m, u) ==
  IF m.syntax = "invalid" THEN s
  ELSE IF m.syntax # "object" \/ ~IsString(m.type) THEN s
  ELSE IF m.type = "sensor_update" THEN
    runControlLogic([s EXCEPT !.currentSensorTemp = AsNumber(m.temperature),
                              !.hasSensorData = TRUE,
                              !.lastSensorUpdate = s.now])
  ELSE IF m.type = "config_update" THEN
    LET s1 == applyConfig(s, m, u) IN
    IF s1.crashed THEN s1
    ELSE LET s2 == runControlLogic(s1) IN sendTXT(s2, StatusUpdate(s2))
  ELSE IF m.type = "ping" THEN sendTXT(s, PongMsg)
  ELSE s

(* variant: a close of the link leaves the relay as it is *)
webSocketEventThermo_NoFailSafe(s, type, m, u) ==
  IF type = "CONNECTED" THEN sendTXT(s, RegisterMsg)
  ELSE IF type = "TEXT" THEN handleMessage(s, m, u)
  ELSE s

(* variant: a close of the link also falls back to Manual *)
webSocketEventThermo_ResetMode(s, type, m, u) ==
  IF type = "CONNECTED" THEN sendTXT(s, RegisterMsg)
  ELSE IF type = "TEXT" THEN handleMessage(s, m, u)
  ELSE IF type = "DISCONNECTED"
    THEN setRelayThermo([s EXCEPT !.currentMode = MODE_MANUAL], FALSE)
  ELSE s

(* webSocketEvent, lines 754-770 *)
webSocketEventThermo(s, type, m, u) ==
  IF type = "CONNECTED" THEN sendTXT(s, RegisterMsg)
  ELSE IF type = "DISCONNECTED" THEN setRelayThermo(s, FALSE)
  ELSE IF type = "TEXT" THEN handleMessage(s, m, u)
  ELSE s

----------------------------------------------------------------------------
(* Temperature probes (src/unnamed/part_000 and part_001) *)

(* what bme.readTemperature() and bme.readHumidity() return: a value or NaN *)
NaN == [k |-> "nan", n |-> 0]
Readings(values) == {NaN} \cup {Num(n) : n \in values}
isnan(x) == x.k = "nan"

(* doc["temperature"] = temp followed by serializeJson: a NaN float is     *)
(* written as null, which no reader takes for a number                      *)
JsonFloat(x) == IF isnan(x) THEN BadNum ELSE x

(* the reading of one pass of loop, kept in ev.frame *)
ReadFrame(t, h) ==
  [NoFrame EXCEPT !.syntax = "read", !.temperature = t, !.humidity = h]

(* sendRegister, part_000 lines 89-100 and part_001 lines 96-108 *)
RegisterMsgSonda ==
  [OutFrame("register", "-", "-", "-", 0) EXCEPT !.id = ID_PLACA_SONDA]

(* sendSensorUpdate, part_000 lines 102-114 *)
sendSensorUpdate(s, temp, hum) ==
  sendTXT(s, [OutFrame("sensor_update", "-", "-", "-", 0)
                EXCEPT !.temperature = JsonFloat(temp), !.humidity = JsonFloat(hum),
                       !.client_id = ID_PLACA_SONDA])

(* sendTelemetry, part_001 lines 110-123 *)
sendTelemetry(s, temp, hum) ==
  sendTXT(s, [OutFrame("telemetry", "-", "-", "-", 0)
                EXCEPT !.from = ID_PLACA_SONDA, !.temp = JsonFloat(temp),
                       !.hum = JsonFloat(hum)])

(* webSocketEvent, part_000 lines 116-137 *)
webSocketEventSensor(s, type, m) ==
  IF type = "CONNECTED" THEN sendTXT(s, RegisterMsgSonda)
  ELSE IF type = "TEXT" THEN
    IF m.syntax # "invalid" /\ IsString(m.type) /\ m.type = "ping"
    THEN sendTXT(s, PongMsg)
    ELSE s
  ELSE s

(* webSocketEvent, part_001 lines 125-139 *)
webSocketEventTelemetry(s, type, m) ==
  IF type = "CONNECTED" THEN sendTXT(s, RegisterMsgSonda)
  ELSE s

(* the reading and its test in loop, part_000 lines 185-193 *)
measureSensor(s, t, h) ==
  IF ~isnan(t) THEN sendSensorUpdate(s, t, h) ELSE s

(* the reading and its test in loop, part_001 lines 199-207 *)
measureTelemetry(s, t, h) ==
  IF isnan(t) \/ isnan(h) THEN s ELSE sendTelemetry(s, t, h)

----------------------------------------------------------------------------
(* State machine *)

Event(kind, frame, didEval) ==
  [kind |-> kind, frame |-> frame, relayWas |-> relayState, eval |-> didEval]

(* variant: a restart leaves the device halted instead of running setup again *)
Boot_Halted ==
  /\ pc' = "halted"
  /\ apMode' = FALSE
  /\ connected' = FALSE
  /\ relayState' = FALSE
  /\ pin' = "FLOAT"
  /\ currentMode' = MODE_MANUAL
  /\ targetTemp' = INITIAL_TARGET
  /\ currentSensorTemp' = 0
  /\ hasSensorData' = FALSE
  /\ lastSensorUpdate' = 0
  /\ now' = 0
  /\ lastCheck' = 0
  /\ lastDebug' = 0
  /\ lastMeasureTime' = 0
  /\ out' = <<>>
  /\ evalSinceConnect' = FALSE
  /\ relayEverOn' = FALSE

(* the globals as their initialisers leave them, lines 70, 86, 604-614 *)
Boot ==
  /\ pc' = "setup"
  /\ apMode' = FALSE
  /\ connected' = FALSE
  /\ relayState' = FALSE
  /\ pin' = "FLOAT"
  /\ currentMode' = MODE_MANUAL
  /\ targetTemp' = INITIAL_TARGET
  /\ currentSensorTemp' = 0
  /\ hasSensorData' = FALSE
  /\ lastSensorUpdate' = 0
  /\ now' = 0
  /\ lastCheck' = 0
  /\ lastDebug' = 0
  /\ lastMeasureTime' = 0
  /\ out' = <<>>
  /\ evalSinceConnect' = FALSE
  /\ relayEverOn' = FALSE

Init ==
  /\ variant \in {"relay", "thermo", "sensor", "telemetry"}
  /\ savedCreds \in BOOLEAN
  /\ pc = "setup"
  /\ apMode = FALSE
  /\ connected = FALSE
  /\ relayState = FALSE
  /\ pin = "FLOAT"
  /\ currentMode = MODE_MANUAL
  /\ targetTemp = INITIAL_TARGET
  /\ currentSensorTemp = 0
  /\ hasSensorData = FALSE
  /\ lastSensorUpdate = 0
  /\ now = 0
  /\ lastCheck = 0
  /\ lastDebug = 0
  /\ lastMeasureTime = 0
  /\ out = <<>>
  /\ ev = [kind |-> "boot", frame |-> NoFrame, relayWas |-> FALSE, eval |-> FALSE]
  /\ evalSinceConnect = FALSE
  /\ relayEverOn = FALSE
  /\ advances = 0

(* the handler's result becomes the globals *)
Commit(s) ==
  /\ relayState' = s.relayState
  /\ pin' = s.pin
  /\ connected' = s.connected
  /\ currentMode' = s.currentMode
  /\ targetTemp' = s.targetTemp
  /\ currentSensorTemp' = s.currentSensorTemp
  /\ hasSensorData' = s.hasSensorData
  /\ lastSensorUpdate' = s.lastSensorUpdate
  /\ out' = s.out
  /\ relayEverOn' = (relayEverOn \/ (variant = "thermo" /\ s.relayState))

(* what conectarWiFi would answer for the home network, the mobile network *)
(* and the stored credentials, kept in ev.frame of the setup step          *)
WifiOutcome(ok) == IF ok THEN "ok" ELSE "fail"
WifiTried(casaOk, movilOk, storedOk) ==
  [NoFrame EXCEPT !.syntax = "wifi", !.to = WifiOutcome(casaOk),
                  !.device = WifiOutcome(movilOk), !.action = WifiOutcome(storedOk)]

(* setup of the command relay, lines 505-547 *)
SetupCmd ==
  /\ variant = "relay" /\ pc = "setup"
  /\ \E casaOk \in BOOLEAN, movilOk \in BOOLEAN, storedOk \in BOOLEAN :
       /\ apMode' = setupEntersAP(casaOk, movilOk, savedCreds, storedOk)
       /\ ev' = Event("setup", WifiTried(casaOk, movilOk, storedOk), FALSE)
  /\ Commit([Cur EXCEPT !.pin = ActiveLevel(FALSE), !.relayState = FALSE])
  /\ pc' = "loop"
  /\ UNCHANGED <<variant, savedCreds, now, lastCheck, lastDebug, lastMeasureTime,
                 evalSinceConnect, advances>>

(* the /save page of the configuration portal, lines 465-474 *)
ApSave ==
  /\ variant = "relay" /\ pc = "loop" /\ apMode
  /\ \E filled \in BOOLEAN : savedCreds' = filled
  /\ Boot
  /\ ev' = Event("restart", NoFrame, FALSE)
  /\ UNCHANGED <<variant, advances>>

(* variant: setup drives the relay to its active level *)
SetupThermo_RelayOn ==
  /\ variant = "thermo" /\ pc = "setup"
  /\ Commit([Cur EXCEPT !.pin = ActiveLevel(TRUE), !.relayState = TRUE])
  /\ pc' = "loop"
  /\ ev' = Event("setup", NoFrame, FALSE)
  /\ UNCHANGED <<variant, apMode, savedCreds, now, lastCheck, lastDebug, lastMeasureTime,
                 evalSinceConnect, advances>>

(* setup of the thermostat, lines 832-863 *)
SetupThermo ==
  /\ variant = "thermo" /\ pc = "setup"
  /\ Commit([Cur EXCEPT !.pin = ActiveLevel(FALSE)])
  /\ pc' = "loop"
  /\ ev' = Event("setup", NoFrame, FALSE)
  /\ UNCHANGED <<variant, apMode, savedCreds, now, lastCheck, lastDebug, lastMeasureTime,
                 evalSinceConnect, advances>>

(* webSocket.isConnected() as the callback of an event sees it: the library *)
(* sets the client status before it calls the callback                     *)
LinkAfter(type) ==
  IF type = "CONNECTED" THEN TRUE
  ELSE IF type = "DISCONNECTED" THEN FALSE
  ELSE connected

(* webSocket.loop() of the command relay delivering one event, line 558 *)
CmdEvent(type, m) ==
  /\ variant = "relay" /\ pc = "loop" /\ ~apMode
  /\ LET s0 == [Cur EXCEPT !.connected = LinkAfter(type)]
     IN Commit(webSocketEventCmd(s0, type, m))
  /\ ev' = Event(type, m, FALSE)
  /\ UNCHANGED <<variant, pc, apMode, savedCreds, now, lastCheck, lastDebug,
                 lastMeasureTime, evalSinceConnect, advances>>

CmdConnected == ~connected /\ CmdEvent("CONNECTED", NoFrame)
CmdDisconnected == CmdEvent("DISCONNECTED", NoFrame)
CmdError == CmdEvent("ERROR", NoFrame)
CmdText == connected /\ \E m \in RelayFrames : CmdEvent("TEXT", m)

(* webSocket.loop() of the thermostat delivering one event, line 866 *)
ThermoEvent(type, m, u) ==
  /\ variant = "thermo" /\ pc = "loop"
  /\ LET s0 == [Cur EXCEPT !.connected = LinkAfter(type)]
         s1 == webSocketEventThermo(s0, type, m, u)
     IN IF s1.crashed
        THEN /\ Boot
             /\ ev' = Event("crash", m, FALSE)
        ELSE /\ Commit(s1)
             /\ ev' = Event(type, m, s1.evaluated)
             /\ evalSinceConnect' = IF type = "CONNECTED" THEN FALSE
                                    ELSE IF type = "DISCONNECTED" THEN FALSE
                                    ELSE (evalSinceConnect \/ s1.evaluated)
             /\ UNCHANGED <<pc, apMode, now, lastCheck, lastDebug, lastMeasureTime>>
  /\ UNCHANGED <<variant, savedCreds, advances>>

ThermoConnected == ~connected /\ ThermoEvent("CONNECTED", NoFrame, "differ")
ThermoDisconnected == ThermoEvent("DISCONNECTED", NoFrame, "differ")
ThermoError == ThermoEvent("ERROR", NoFrame, "differ")
ThermoText ==
  connected /\ \E m \in ThermoFrames : \E u \in NullStrcmp(m) : ThermoEvent("TEXT", m, u)

(* variant: the pass of loop keeps the tick's time but does not evaluate *)
LoopCheck_NoEval ==
  /\ variant = "thermo" /\ pc = "loop"
  /\ LET due == Elapsed(now, lastCheck, CHECK_INTERVAL_MS)
     IN /\ Commit(Cur)
        /\ lastCheck' = IF due THEN now ELSE lastCheck
        /\ ev' = Event("check", NoFrame, FALSE)
        /\ evalSinceConnect' = (connected /\ evalSinceConnect)
  /\ pc' = "debug"
  /\ UNCHANGED <<variant, apMode, savedCreds, now, lastDebug, lastMeasureTime, advances>>

(* loop, lines 868-872: the periodic control evaluation *)
LoopCheck ==
  /\ variant = "thermo" /\ pc = "loop"
  /\ LET due == Elapsed(now, lastCheck, CHECK_INTERVAL_MS)
         s1 == IF due THEN runControlLogic(Cur) ELSE Cur
     IN /\ Commit(s1)
        /\ lastCheck' = IF due THEN now ELSE lastCheck
        /\ ev' = Event("check", NoFrame, due)
        /\ evalSinceConnect' = (connected /\ (evalSinceConnect \/ due))
  /\ pc' = "debug"
  /\ UNCHANGED <<variant, apMode, savedCreds, now, lastDebug, lastMeasureTime, advances>>

(* loop, lines 874-897: the periodic status push *)
LoopDebug ==
  /\ variant = "thermo" /\ pc = "debug"
  /\ LET due == Elapsed(now, lastDebug, DEBUG_INTERVAL_MS)
         s1 == IF due THEN (IF connected THEN sendTXT(Cur, StatusUpdate(Cur)) ELSE Cur)
               ELSE Cur
     IN /\ Commit(s1)
        /\ lastDebug' = IF due THEN now ELSE lastDebug
        /\ ev' = Event("debug", NoFrame, FALSE)
  /\ pc' = "loop"
  /\ UNCHANGED <<variant, apMode, savedCreds, now, lastCheck, lastMeasureTime,
                 evalSinceConnect, advances>>

(* setup of a probe, part_000 lines 142-173 and part_001 lines 144-186 *)
SetupProbe ==
  /\ variant \in {"sensor", "telemetry"} /\ pc = "setup"
  /\ Commit(Cur)
  /\ pc' = "loop"
  /\ ev' = Event("setup", NoFrame, FALSE)
  /\ UNCHANGED <<variant, apMode, savedCreds, now, lastCheck, lastDebug, lastMeasureTime,
                 evalSinceConnect, advances>>

(* webSocket.loop() of a probe delivering one event, part_000 line 179 and *)
(* part_001 line 192                                                       *)
ProbeEvent(v, type, m) ==
  /\ variant = v /\ pc = "loop"
  /\ LET s0 == [Cur EXCEPT !.connected = LinkAfter(type)]
     IN Commit(IF v = "sensor" THEN webSocketEventSensor(s0, type, m)
               ELSE webSocketEventTelemetry(s0, type, m))
  /\ ev' = Event(type, m, FALSE)
  /\ UNCHANGED <<variant, pc, apMode, savedCreds, now, lastCheck, lastDebug,
                 lastMeasureTime, evalSinceConnect, advances>>

SensorConnected == ~connected /\ ProbeEvent("sensor", "CONNECTED", NoFrame)
SensorDisconnected == ProbeEvent("sensor", "DISCONNECTED", NoFrame)
SensorText == connected /\ \E m \in ProbeFrames : ProbeEvent("sensor", "TEXT", m)
TelemetryConnected == ~connected /\ ProbeEvent("telemetry", "CONNECTED", NoFrame)
TelemetryDisconnected == ProbeEvent("telemetry", "DISCONNECTED", NoFrame)
TelemetryText == connected /\ \E m \in ProbeFrames : ProbeEvent("telemetry", "TEXT", m)

(* loop of a probe after webSocket.loop(), part_000 lines 181-194 and      *)
(* part_001 lines 195-208: the periodic measurement                        *)
Measure(v) ==
  /\ variant = v /\ pc = "loop"
  /\ IF Elapsed(now, lastMeasureTime, MEASURE_INTERVAL_MS)
     THEN \E t \in Readings(Temps), h \in Readings(Humidities) :
            /\ lastMeasureTime' = now
            /\ Commit(IF v = "sensor" THEN measureSensor(Cur, t, h)
                      ELSE measureTelemetry(Cur, t, h))
            /\ ev' = Event("measure", ReadFrame(t, h), FALSE)
     ELSE /\ lastMeasureTime' = lastMeasureTime
          /\ Commit(Cur)
          /\ ev' = Event("measure", NoFrame, FALSE)
  /\ UNCHANGED <<variant, pc, apMode, savedCreds, now, lastCheck, lastDebug,
                 evalSinceConnect, advances>>

SensorMeasure == Measure("sensor")
TelemetryMeasure == Measure("telemetry")

(* webSocket.enableHeartbeat(interval, timeout, 2) in setup (lines 546 and   *)
(* 862, part_000 line 172, part_001 line 185; the second copy in part_000    *)
(* does not call it): the client pings the server and, when two pongs in a   *)
(* row are missed, closes the link itself and delivers WStype_DISCONNECTED.  *)
(* ev.frame records that the close came from the missed pongs.               *)
PongTimeout == [NoFrame EXCEPT !.syntax = "pong_timeout"]

CmdHeartbeatTimeout == connected /\ CmdEvent("DISCONNECTED", PongTimeout)
ThermoHeartbeatTimeout == connected /\ ThermoEvent("DISCONNECTED", PongTimeout, "differ")
SensorHeartbeatTimeout == connected /\ ProbeEvent("sensor", "DISCONNECTED", PongTimeout)
TelemetryHeartbeatTimeout == connected /\ ProbeEvent("telemetry", "DISCONNECTED", PongTimeout)

(* webSocket.loop() on a link that is down (lines 558 and 866, part_000     *)
(* line 179, part_001 line 192): the client, armed by webSocket.begin and   *)
(* setReconnectInterval in setup, tries to connect.  A try that succeeds is *)
(* the CONNECTED event; one that fails calls nothing in the sketch.  The    *)
(* command relay does not reach webSocket.loop() in AP mode.                *)
ConnectFailed ==
  /\ pc = "loop" /\ ~apMode /\ ~connected
  /\ out' = <<>>
  /\ ev' = Event("CONNECT_FAILED", NoFrame, FALSE)
  /\ UNCHANGED <<variant, pc, apMode, savedCreds, connected, relayState, pin, currentMode,
                 targetTemp, currentSensorTemp, hasSensorData, lastSensorUpdate, now,
                 lastCheck, lastDebug, lastMeasureTime, evalSinceConnect, relayEverOn,
                 advances>>

(* millis() moves on between two passes of loop; the command relay never   *)
(* reads it after setup                                                     *)
Advance ==
  /\ variant # "relay" /\ pc = "loop"
  /\ advances < MaxAdvance
  /\ \E d \in Deltas : now' = (now + (d \div Quantum)) % MillisMod
  /\ advances' = advances + 1
  /\ out' = <<>>
  /\ ev' = Event("advance", NoFrame, FALSE)
  /\ UNCHANGED <<variant, pc, apMode, savedCreds, connected, relayState, pin, currentMode,
                 targetTemp, currentSensorTemp, hasSensorData, lastSensorUpdate,
                 lastCheck, lastDebug, lastMeasureTime, evalSinceConnect, relayEverOn>>

Next ==
  \/ SetupCmd
  \/ ApSave
  \/ CmdConnected
  \/ CmdDisconnected
  \/ CmdError
  \/ CmdText
  \/ SetupThermo
  \/ ThermoConnected
  \/ ThermoDisconnected
  \/ ThermoError
  \/ ThermoText
  \/ LoopCheck
  \/ LoopDebug
  \/ SetupProbe
  \/ SensorConnected
  \/ SensorDisconnected
  \/ SensorText
  \/ SensorMeasure
  \/ TelemetryConnected
  \/ TelemetryDisconnected
  \/ TelemetryText
  \/ TelemetryMeasure
  \/ ConnectFailed
  \/ CmdHeartbeatTimeout
  \/ ThermoHeartbeatTimeout
  \/ SensorHeartbeatTimeout
  \/ TelemetryHeartbeatTimeout
  \/ Advance

Spec == Init /\ [][Next]_vars

(* millis() moves on without end: after a pass of loop 3 s go by before the *)
(* next one, or the rest of the counter's period, so that millis() keeps to *)
(* LiveClock and runs across its wrap.                                      *)
AdvanceWrap ==
  /\ variant # "relay" /\ pc = "loop" /\ ev.kind \in {"debug", "measure"}
  /\ \E d \in {3000 \div Quantum, MillisMod - (3000 \div Quantum)} :
       now' = (now + d) % MillisMod
  /\ now' \in LiveClock
  /\ out' = <<>>
  /\ ev' = Event("advance", NoFrame, FALSE)
  /\ UNCHANGED <<variant, pc, apMode, savedCreds, connected, relayState, pin, currentMode,
                 targetTemp, currentSensorTemp, hasSensorData, lastSensorUpdate,
                 lastCheck, lastDebug, lastMeasureTime, evalSinceConnect, relayEverOn,
                 advances>>

NextLive ==
  \/ SetupCmd
  \/ ApSave
  \/ CmdConnected
  \/ CmdDisconnected
  \/ CmdError
  \/ CmdText
  \/ SetupThermo
  \/ ThermoConnected
  \/ ThermoDisconnected
  \/ ThermoError
  \/ ThermoText
  \/ LoopCheck
  \/ LoopDebug
  \/ SetupProbe
  \/ SensorConnected
  \/ SensorDisconnected
  \/ SensorText
  \/ SensorMeasure
  \/ TelemetryConnected
  \/ TelemetryDisconnected
  \/ TelemetryText
  \/ TelemetryMeasure
  \/ ConnectFailed
  \/ CmdHeartbeatTimeout
  \/ ThermoHeartbeatTimeout
  \/ SensorHeartbeatTimeout
  \/ TelemetryHeartbeatTimeout
  \/ AdvanceWrap

(* a connect attempt of webSocket.loop(), whatever its outcome *)
ConnectAttempt ==
  \/ CmdConnected \/ ThermoConnected \/ SensorConnected \/ TelemetryConnected
  \/ ConnectFailed

(* loop() is called again and again and the clock runs on: setup ends,     *)
(* every pass of loop reaches its periodic blocks, and every pass starts    *)
(* with webSocket.loop(), which on a link that stays down keeps trying to   *)
(* connect.                                                                 *)
SpecLive ==
  /\ Init /\ [][NextLive]_vars
  /\ WF_vars(SetupCmd) /\ WF_vars(SetupThermo) /\ WF_vars(SetupProbe)
  /\ WF_vars(LoopCheck) /\ WF_vars(LoopDebug)
  /\ SF_vars(AdvanceWrap)
  /\ SF_vars(ConnectAttempt)

(* The thermostat after 49.7 days less 3 s of uptime, the counter of        *)
(* millis() about to wrap: setup is long over, the link is down, no reading *)
(* was ever received, and a pass of loop has just run both periodic blocks. *)
InitWrap ==
  /\ variant = "thermo"
  /\ savedCreds = FALSE
  /\ pc = "loop"
  /\ apMode = FALSE
  /\ connected = FALSE
  /\ relayState = FALSE
  /\ pin = ActiveLevel(FALSE)
  /\ currentMode = MODE_MANUAL
  /\ targetTemp = INITIAL_TARGET
  /\ currentSensorTemp = 0
  /\ hasSensorData = FALSE
  /\ lastSensorUpdate = 0
  /\ now = WrapEve
  /\ lastCheck = WrapEve
  /\ lastDebug = WrapEve
  /\ lastMeasureTime = 0
  /\ out = <<>>
  /\ ev = [kind |-> "debug", frame |-> NoFrame, relayWas |-> FALSE, eval |-> FALSE]
  /\ evalSinceConnect = FALSE
  /\ relayEverOn = FALSE
  /\ advances = 0

(* the thermostat's steps *)
NextWrap ==
  \/ SetupThermo
  \/ ThermoConnected
  \/ ThermoDisconnected
  \/ ThermoError
  \/ ThermoText
  \/ LoopCheck
  \/ LoopDebug
  \/ ConnectFailed
  \/ ThermoHeartbeatTimeout
  \/ Advance

SpecWrap == InitWrap /\ [][NextWrap]_vars

----------------------------------------------------------------------------
(* Properties *)

Thermo == variant = "thermo"
Relay == variant = "relay"

(* the reading is valid: one has been received and it is not older than the timeout *)
ReadingValid == hasSensorData /\ ~Elapsed(now, lastSensorUpdate, SENSOR_TIMEOUT_MS)

(* the last step handled an inbound frame of this type *)
Handled(ty) == ev.kind = "TEXT" /\ ev.frame.syntax = "object" /\ ev.frame.type = ty

(* a command the relay sketch matches: addressed here, relay 0, known action *)
Matched(m) ==
  /\ m.syntax = "object" /\ m.type = "command"
  /\ m.to \in {ABSENT, ID_PLACA}
  /\ m.device = "relay"
  /\ m.id \in {NoNum, Num(0)}
  /\ m.action \in {"on", "off", "toggle", "status"}

NumStatus(seq) == Cardinality({i \in DOMAIN seq : seq[i].type = "status_update"})

(* C1: in both sketches, whenever the link is not connected the relay is Off, *)
(* in every state between two steps.                                          *)
C1_RelayOffWhenNotConnected == ~connected => ~relayState

C1_Witness == ev.kind = "DISCONNECTED" /\ ev.relayWas /\ ~connected /\ ~relayState

(* C2: after the handling of a close event or of an error event the relay is Off. *)
C2_CloseOrErrorSetsRelayOff == ev.kind \in {"DISCONNECTED", "ERROR"} => ~relayState

(* C3: thermostat: at the end of a periodic control evaluation made with the  *)
(* link not connected the relay is Off, whatever the mode and the reading.    *)
C3_OffAfterEvaluationWhenNotConnected ==
  (Thermo /\ ev.kind = "check" /\ ev.eval /\ ~connected) => ~relayState

C3_Witness ==
  /\ Thermo /\ ev.kind = "check" /\ ev.eval /\ ~connected
  /\ currentMode = MODE_AUTO /\ ReadingValid /\ currentSensorTemp < targetTemp
  /\ ~relayState

(* C4 as stated: thermostat: in every state with the link connected, mode Auto *)
(* and a valid reading, the relay is On iff the reading is below the target.   *)
C4_AutoLawAtEveryPoint ==
  (Thermo /\ connected /\ currentMode = MODE_AUTO /\ ReadingValid)
    => (relayState <=> currentSensorTemp < targetTemp)

(* C4 as amended: the same, in the states where a control evaluation has run   *)
(* since the link last connected.                                             *)
C4_AutoLawSinceEvaluation ==
  (Thermo /\ connected /\ currentMode = MODE_AUTO /\ ReadingValid /\ evalSinceConnect)
    => (relayState <=> currentSensorTemp < targetTemp)

C4_Witness ==
  /\ Thermo /\ connected /\ currentMode = MODE_AUTO /\ ReadingValid /\ evalSinceConnect
  /\ ev.kind = "debug" /\ currentSensorTemp = targetTemp /\ ~relayState

(* C5: thermostat: the relay goes from Off to On only in a step that leaves a  *)
(* valid reading: one received, and not older than the timeout.               *)
C5_NoOnWithInvalidReading ==
  [][(Thermo /\ ~relayState /\ relayState') =>
       (hasSensorData' /\ ~Elapsed(now', lastSensorUpdate', SENSOR_TIMEOUT_MS))]_vars

C5_Witness ==
  /\ Thermo /\ connected /\ Handled("config_update") /\ ev.frame.mode = "AUTO"
  /\ ~ev.relayWas /\ currentMode = MODE_AUTO
  /\ currentSensorTemp \in Temps /\ currentSensorTemp < targetTemp
  /\ Elapsed(now, lastSensorUpdate, SENSOR_TIMEOUT_MS)
  /\ ~relayState

(* C6 as stated: thermostat: a control evaluation made in Manual with the link *)
(* connected leaves relayState as it was.                                      *)
C6_ManualEvaluationKeepsRelay ==
  [][(Thermo /\ ev'.eval /\ connected' /\ currentMode' = MODE_MANUAL)
       => relayState' = relayState]_vars

(* C6 as amended: thermostat: a control evaluation made in Manual with the     *)
(* link connected leaves the relay Off.                                        *)
C6_ManualEvaluationForcesOff ==
  (Thermo /\ ev.eval /\ connected /\ currentMode = MODE_MANUAL) => ~relayState

C6_Witness ==
  /\ Thermo /\ ev.eval /\ connected /\ currentMode = MODE_MANUAL
  /\ ev.relayWas /\ ~relayState

(* C7: thermostat: a sensor_update or config_update handled with the relay Off *)
(* and leaving the mode Manual leaves the relay Off.                           *)
C7_NoOnInManualByUpdate ==
  (Thermo /\ (Handled("sensor_update") \/ Handled("config_update"))
     /\ currentMode = MODE_MANUAL /\ ~ev.relayWas)
    => ~relayState

C7_Witness ==
  /\ Thermo /\ connected /\ Handled("sensor_update") /\ currentMode = MODE_MANUAL
  /\ ReadingValid /\ currentSensorTemp < targetTemp /\ ~ev.relayWas /\ ~relayState

(* C8: command relay: a matched command is answered with exactly one state     *)
(* frame, and its state field is the relay value after the command.            *)
C8_OneStateReplyPerCommand ==
  (Relay /\ ev.kind = "TEXT" /\ Matched(ev.frame)) => out = <<StateMsg(relayState)>>

C8_Witness ==
  /\ Relay /\ ev.kind = "TEXT" /\ Matched(ev.frame) /\ ev.frame.action = "off"
  /\ ev.relayWas /\ ~relayState /\ out = <<StateMsg(FALSE)>>

(* C9: command relay: a matched on leaves the relay On, off leaves it Off,     *)
(* toggle leaves the negation of the prior value, and a toggle from Off is     *)
(* answered with state "on".                                                   *)
C9_ActionSemantics ==
  (Relay /\ ev.kind = "TEXT" /\ Matched(ev.frame)) =>
    /\ ev.frame.action = "on" => relayState
    /\ ev.frame.action = "off" => ~relayState
    /\ ev.frame.action = "toggle" => relayState = ~ev.relayWas
    /\ (ev.frame.action = "toggle" /\ ~ev.relayWas) => out = <<StateMsg(TRUE)>>

C9_Witness ==
  /\ Relay /\ ev.kind = "TEXT" /\ Matched(ev.frame) /\ ev.frame.action = "toggle"
  /\ ev.frame.to = ID_PLACA /\ ~ev.relayWas /\ relayState /\ out = <<StateMsg(TRUE)>>

(* C10: thermostat: in a step that may write the relay, the write puts one     *)
(* status_update on the link when it changes the relay with the link           *)
(* connected, carrying the new value, and none otherwise.  The status_update   *)
(* that the config_update branch sends for itself is not the write's.          *)
C10_PushIffTransitionWhileConnected ==
  (Thermo /\ ev.kind \in {"TEXT", "check", "DISCONNECTED", "CONNECTED", "ERROR"}) =>
    LET own == IF Handled("config_update") THEN 1 ELSE 0
        changed == relayState # ev.relayWas
    IN /\ NumStatus(out) - own = (IF changed /\ connected THEN 1 ELSE 0)
       /\ (changed /\ connected) =>
            /\ out[1].type = "status_update"
            /\ out[1].relay_state = (IF relayState THEN "ON" ELSE "OFF")

C10_Witness ==
  /\ Thermo /\ Handled("sensor_update") /\ connected /\ ~ev.relayWas /\ relayState
  /\ out = <<OutFrame("status_update", "-", MODE_AUTO, "ON", targetTemp)>>

(* C11 as stated: thermostat: the handling of a config_update sends exactly    *)
(* one status_update, which reports the mode, relay and target after the       *)
(* evaluation, also when the evaluation changes the relay.                     *)
C11_OneStatusPerConfig ==
  (Thermo /\ Handled("config_update")) => out = <<StatusUpdate(Cur)>>

(* C11 as amended: thermostat: the handling of a config_update applies the     *)
(* mode and target it carries, evaluates the control law with them, and ends   *)
(* with one status_update that reports the values after the evaluation; when   *)
(* the evaluation changes the relay, the write's own status_update with the    *)
(* same fields goes first, so two are sent.  A mode that is not a string can   *)
(* restart the board, and then nothing is sent.                                *)
C11_StatusAfterEvaluation ==
  /\ (Thermo /\ Handled("config_update")) =>
       /\ IsString(ev.frame.mode) =>
            currentMode = (IF ev.frame.mode = "AUTO" THEN MODE_AUTO ELSE MODE_MANUAL)
       /\ ContainsNum(ev.frame.target_temp) => targetTemp = AsNumber(ev.frame.target_temp)
       /\ ev.eval
       /\ currentMode = MODE_MANUAL => ~relayState
       /\ (currentMode = MODE_AUTO /\ ReadingValid) =>
            (relayState <=> currentSensorTemp < targetTemp)
       /\ Len(out) = (IF relayState # ev.relayWas THEN 2 ELSE 1)
       /\ \A i \in DOMAIN out : out[i] = StatusUpdate(Cur)
  /\ (Thermo /\ ev.kind = "crash") => (out = <<>> /\ pc = "setup")

C11_Witness ==
  /\ Thermo /\ Handled("config_update") /\ ev.frame.mode = "AUTO"
  /\ ~ev.relayWas /\ relayState
  /\ out = <<StatusUpdate(Cur), StatusUpdate(Cur)>>

(* the globals a dropped frame must leave alone *)
ControlUnchanged ==
  UNCHANGED <<relayState, pin, currentMode, targetTemp, currentSensorTemp,
              hasSensorData, lastSensorUpdate>>

(* C12: a command, get_state, sensor_update or config_update whose `to` is     *)
(* not this device's id changes nothing and gets no reply; one without `to`    *)
(* is accepted.                                                               *)
C12_ForeignToIgnored ==
  /\ [][(/\ ev'.kind \in {"TEXT", "crash"}
         /\ ev'.frame.syntax = "object"
         /\ ev'.frame.type \in {"command", "get_state", "sensor_update", "config_update"}
         /\ ev'.frame.to \notin {ABSENT, ID_PLACA})
        => (out' = <<>> /\ ControlUnchanged)]_vars
  /\ [](/\ (Relay /\ Handled("get_state") /\ ev.frame.to = ABSENT)
             => out = <<StateMsg(relayState)>>
        /\ (Thermo /\ Handled("sensor_update") /\ ev.frame.to = ABSENT)
             => (hasSensorData /\ lastSensorUpdate = now))

(* C13: a frame that does not parse, whose root is not an object, or whose    *)
(* type is missing or not a string, is dropped: relay, mode, target and       *)
(* reading keep their values and nothing is sent.                             *)
C13_MalformedFrameDropped ==
  [][(/\ ev'.kind \in {"TEXT", "crash"}
      /\ (ev'.frame.syntax # "object" \/ ~IsString(ev'.frame.type)))
     => (out' = <<>> /\ ControlUnchanged /\ ev'.kind = "TEXT")]_vars

C13_Witness ==
  /\ ev.kind = "TEXT" /\ ev.frame.syntax = "object" /\ ev.frame.type = ABSENT
  /\ connected /\ ev.relayWas /\ relayState /\ out = <<>>

(* C14: thermostat: a sensor_update without a numeric temperature leaves the   *)
(* stored temperature, the validity flag, the timestamp and the relay as they  *)
(* were; a config_update with neither mode nor target_temp, or with a mode     *)
(* that is not a string, leaves mode, target and relay as they were and sends  *)
(* no status_update.                                                          *)
C14_IncompleteMessageDropped ==
  [][(Thermo /\ ev'.kind \in {"TEXT", "crash"} /\ ev'.frame.syntax = "object") =>
       /\ (ev'.frame.type = "sensor_update" /\ ev'.frame.temperature.k # "num")
            => UNCHANGED <<currentSensorTemp, hasSensorData, lastSensorUpdate, relayState>>
       /\ (/\ ev'.frame.type = "config_update"
           /\ \/ (ev'.frame.mode = ABSENT /\ ev'.frame.target_temp.k = ABSENT)
              \/ ev'.frame.mode = NONSTRING)
            => (UNCHANGED <<currentMode, targetTemp, relayState>> /\ NumStatus(out') = 0)]_vars

(* input the sketch does not recognise: a type it has no branch for, and in    *)
(* the command relay a command with a device other than "relay", a numeric id  *)
(* other than 0, an action outside the set, or device/action missing or not a  *)
(* string                                                                      *)
UnknownInput(m) ==
  /\ m.syntax = "object" /\ IsString(m.type)
  /\ \/ Relay /\ m.type \notin {"ping", "pong", "registered", "get_state", "command"}
     \/ Thermo /\ m.type \notin {"sensor_update", "config_update", "ping"}
     \/ /\ Relay /\ m.type = "command"
        /\ \/ ~IsString(m.device) \/ m.device # "relay"
           \/ ~IsString(m.action) \/ m.action \notin {"on", "off", "toggle", "status"}
           \/ (m.id.k = "num" /\ m.id.n # 0)

C16_TimeoutForcesOff ==
  /\ []((Thermo /\ ev.eval /\ connected /\ currentMode = MODE_AUTO
           /\ Elapsed(now, lastSensorUpdate, SENSOR_TIMEOUT_MS))
          => (~relayState /\ ~hasSensorData))
  /\ [][(Thermo /\ ~hasSensorData /\ ~relayState /\ relayState')
        => (ev'.kind = "TEXT" /\ ev'.frame.type = "sensor_update")]_vars

C16_Witness ==
  /\ Thermo /\ ev.kind = "check" /\ ev.eval /\ ev.relayWas
  /\ connected /\ currentMode = MODE_AUTO
  /\ Elapsed(now, lastSensorUpdate, SENSOR_TIMEOUT_MS)
  /\ ~relayState /\ ~hasSensorData

(* C18: command relay: every application of a matched command with action     *)
(* status leaves relayState and the pin as they were and sends exactly one    *)
(* state message carrying that value; so any run of such applications ends    *)
(* with the relayState it started with and one reply per application.         *)
C18_StatusIdempotent ==
  [][(Relay /\ ev'.kind = "TEXT" /\ Matched(ev'.frame) /\ ev'.frame.action = "status")
     => (relayState' = relayState /\ pin' = pin
         /\ out' = <<StateMsg(relayState)>>)]_vars

C18_Witness ==
  /\ Relay /\ ev.kind = "TEXT" /\ Matched(ev.frame) /\ ev.frame.action = "status"
  /\ relayState /\ ev.relayWas /\ out = <<StateMsg(TRUE)>>

(* C19 as stated: command relay: every inbound get_state gets exactly one     *)
(* state message carrying the current relay value and changes no state.       *)
C19_EveryGetStateAnswered ==
  [][(Relay /\ ev'.kind = "TEXT" /\ ev'.frame.syntax = "object"
        /\ ev'.frame.type = "get_state")
     => (out' = <<StateMsg(relayState)>> /\ ControlUnchanged)]_vars

(* C19 amended: a get_state without `to`, or whose `to` is this device's id,  *)
(* gets exactly one state message carrying the current relay value; any other *)
(* get_state gets no reply; neither changes any state.                        *)
C19_AddressedGetStateAnswered ==
  [][(Relay /\ ev'.kind = "TEXT" /\ ev'.frame.syntax = "object"
        /\ ev'.frame.type = "get_state")
     => /\ ControlUnchanged
        /\ out' = IF ev'.frame.to \in {ABSENT, ID_PLACA}
                  THEN <<StateMsg(relayState)>> ELSE <<>>]_vars

C19_Witness ==
  /\ Relay /\ Handled("get_state") /\ ev.frame.to = ID_PLACA
  /\ relayState /\ ev.relayWas /\ out = <<StateMsg(TRUE)>>

(* the id a sketch registers with *)
DeviceId == IF variant \in {"sensor", "telemetry"} THEN ID_PLACA_SONDA ELSE ID_PLACA

(* C20: in every sketch the handling of a transport-connect event sends       *)
(* exactly one register message, it carries the device id, and it is the      *)
(* first message sent on the new session, ahead of any state or status.       *)
C20_RegisterFirstOnConnect ==
  (ev.kind = "CONNECTED")
    => /\ connected
       /\ Len(out) >= 1
       /\ out[1].type = "register" /\ out[1].id = DeviceId
       /\ \A i \in 2..Len(out) : out[i].type # "register"

(* a reconnection of the thermostat: a reading of an earlier session is held *)
C20_Witness ==
  /\ Thermo /\ ev.kind = "CONNECTED" /\ hasSensorData
  /\ out = <<RegisterMsg>>

(* the probe half of C17: a pass of loop whose temperature read is NaN sends  *)
(* nothing                                                                    *)
ProbeSilentOnNaN ==
  (variant \in {"sensor", "telemetry"} /\ ev.kind = "measure"
     /\ ev.frame.syntax = "read" /\ isnan(ev.frame.temperature))
    => out = <<>>

(* C17: a failed (NaN) read makes the probe send no measurement, and a        *)
(* sensor_update whose temperature is missing or not a number, when it does   *)
(* reach the thermostat, refreshes neither lastSensorUpdate nor hasSensorData.*)
C17_FailedReadIsNoData ==
  /\ []ProbeSilentOnNaN
  /\ [][(Thermo /\ ev'.kind = "TEXT" /\ ev'.frame.syntax = "object"
           /\ ev'.frame.type = "sensor_update" /\ ev'.frame.temperature.k # "num")
        => UNCHANGED <<lastSensorUpdate, hasSensorData>>]_vars

C22_PingAnswered ==
  [][(ev'.kind = "TEXT" /\ ev'.frame.syntax = "object" /\ ev'.frame.type = "ping")
     => (out' = <<PongMsg>> /\ ControlUnchanged)]_vars

(* C23: the link goes from connected to not connected only by a close or      *)
(* error reported by the transport (or by a restart of the device), never by  *)
(* this side counting missed heartbeat replies.                               *)
C23_NoHeartbeatDisconnect ==
  [][(connected /\ ~connected')
     => \/ ev'.kind \in {"crash", "restart"}
        \/ (ev'.kind = "DISCONNECTED" /\ ev'.frame.syntax # "pong_timeout")]_vars

(* C24: thermostat: currentMode and targetTemp change only in the handling of *)
(* a config_update; every other step (connect, disconnect, error,             *)
(* sensor_update, ping, control tick, status tick, clock) leaves both as      *)
(* they were, so a disconnect followed by a reconnect keeps them.             *)
C24_ConfigOnlyByConfigUpdate ==
  [][(Thermo /\ (currentMode' # currentMode \/ targetTemp' # targetTemp))
     => (ev'.kind \in {"TEXT", "crash"} /\ ev'.frame.syntax = "object"
         /\ ev'.frame.type = "config_update")]_vars

(* a reconnect that finds the mode and target set in an earlier session *)
C24_Witness ==
  /\ Thermo /\ ev.kind = "CONNECTED"
  /\ currentMode = MODE_AUTO /\ targetTemp # INITIAL_TARGET

C26_BootSafeUntilMessage ==
  /\ []((Thermo /\ (pc = "setup" \/ ev.kind = "setup"))
          => (~relayState /\ currentMode = MODE_MANUAL /\ ~hasSensorData
              /\ ~ReadingValid))
  /\ []((Thermo /\ ~relayEverOn) => ~relayState)
  /\ [][(Thermo /\ ~relayEverOn /\ relayEverOn')
        => (ev'.kind = "TEXT" /\ connected /\ connected' /\ relayState')]_vars

(* the relay's first On since boot, by a message that comes after a control tick *)
C26_Witness ==
  /\ Thermo /\ ev.kind = "TEXT" /\ ~ev.relayWas /\ relayState
  /\ lastCheck # 0 /\ connected

(* a probe's frame as the thermostat's deserializeJson reads it when the      *)
(* backend passes the text on unchanged: the same type, and the number under  *)
(* the key "temperature" if the frame has one                                 *)
Forwarded(o) ==
  Frame("object", o.type, ABSENT, ABSENT, ABSENT, NoNum, o.temperature, ABSENT, NoNum)

(* C27: every frame a probe sends for a measurement has type telemetry or     *)
(* sensor_update and carries the temperature read under the key temperature,  *)
(* and a connected thermostat that receives it unchanged holds that           *)
(* temperature as a fresh reading.                                            *)
C27_MeasurementAccepted ==
  (variant \in {"sensor", "telemetry"} /\ ev.kind = "measure")
    => \A i \in 1..Len(out) :
         /\ out[i].type \in {"telemetry", "sensor_update"}
         /\ out[i].temperature = ev.frame.temperature
         /\ LET s == handleMessage([Cur EXCEPT !.connected = TRUE],
                                   Forwarded(out[i]), "differ")
            IN /\ s.hasSensorData
               /\ s.currentSensorTemp = ev.frame.temperature.n
               /\ s.lastSensorUpdate = s.now

(* the control law's hypotheses and its verdict *)
AutoValid == Thermo /\ connected /\ currentMode = MODE_AUTO /\ ReadingValid
LawHolds == relayState = (currentSensorTemp < targetTemp)

(* C28: thermostat, with loop() running on and the clock moving: from every   *)
(* state with the link connected, mode Auto and a valid reading, the relay    *)
(* comes to equal (temperature < target) unless one of the three ceases to    *)
(* hold first; and once it does, it keeps doing so for as long as they hold   *)
(* with the same temperature and target.                                      *)
C28_TickRestoresLaw ==
  /\ (AutoValid /\ ~LawHolds) ~> (LawHolds \/ ~AutoValid)
  /\ [][(AutoValid /\ LawHolds /\ AutoValid'
           /\ currentSensorTemp' = currentSensorTemp /\ targetTemp' = targetTemp)
        => LawHolds']_vars

(* after a reconnect the control tick, not a message, turns the relay On again *)
C28_Witness ==
  /\ AutoValid /\ ev.kind = "check" /\ ev.eval
  /\ ~ev.relayWas /\ relayState /\ relayEverOn

(* C29: command relay: setup ends in AP mode exactly when the home network,   *)
(* the mobile network and the stored credentials have all failed, stored      *)
(* credentials that are missing counting as failed; if any attempt succeeds   *)
(* the device is not in AP mode.                                              *)
C29_APModeIffAllFailed ==
  (Relay /\ ev.kind = "setup")
    => (apMode <=> (/\ ev.frame.to = "fail"
                    /\ ev.frame.device = "fail"
                    /\ (~savedCreds \/ ev.frame.action = "fail")))

(* C30: thermostat: in every reachable state with the mode Manual the relay   *)
(* is Off; a config_update that takes the mode from Auto to Manual with the   *)
(* relay On has turned it Off when its handling ends.                         *)
C30_ManualMeansOff ==
  /\ [](Thermo /\ currentMode = MODE_MANUAL => ~relayState)
  /\ [][(Thermo /\ relayState /\ currentMode = MODE_AUTO
           /\ ev'.kind = "TEXT" /\ ev'.frame.type = "config_update"
           /\ currentMode' = MODE_MANUAL)
        => ~relayState']_vars

C30_Witness ==
  /\ Thermo /\ Handled("config_update") /\ connected
  /\ currentMode = MODE_MANUAL /\ ev.relayWas /\ ~relayState

(* C31: command relay and thermostat: once setup has run, the level on the    *)
(* relay pin is the active level exactly when relayState is true, and no      *)
(* step after setup changes one of the two without the other.                 *)
C31_PinFollowsRelayState ==
  /\ []((variant \in {"relay", "thermo"} /\ pc # "setup")
          => pin = ActiveLevel(relayState))
  /\ [][(variant \in {"relay", "thermo"} /\ pc # "setup" /\ pc' # "setup")
        => ((pin' # pin) <=> (relayState' # relayState))]_vars

C31_Witness ==
  /\ Relay /\ ev.kind = "TEXT" /\ Matched(ev.frame) /\ ev.frame.action = "toggle"
  /\ ~ev.relayWas /\ relayState /\ pin = ActiveLevel(TRUE)

(* the string half of C32: a config_update whose mode is a string leaves the  *)
(* mode Auto exactly when that string is "AUTO"                               *)
StringModeDecides ==
  (Thermo /\ Handled("config_update") /\ IsString(ev.frame.mode))
    => (currentMode = MODE_AUTO <=> ev.frame.mode = "AUTO")

SinceWrap(t) == IF t >= MillisMod \div 2 THEN t - MillisMod ELSE t

(* more than ms milliseconds have truly gone by between b and a *)
TrueElapsed(a, b, ms) == SinceWrap(a) - SinceWrap(b) > (ms \div Quantum)

(* a time taken before the wrap is tested after it *)
AcrossWrap(a, b) == a < MillisMod \div 2 /\ b >= MillisMod \div 2

(* C33: thermostat, around a wrap of the millisecond counter: the control     *)
(* tick and the status tick are due exactly when more than 2 s and 5 s have   *)
(* truly gone by since the last one; an evaluation drops a reading only when  *)
(* more than 20 s have truly gone by since it was received, and a reading     *)
(* that an evaluation in Auto on a connected link leaves valid is truly not   *)
(* older than that.                                                           *)
C33_WrapSafeTests ==
  /\ [][(Thermo /\ ev'.kind = "check")
        => (ev'.eval <=> TrueElapsed(now, lastCheck, CHECK_INTERVAL_MS))]_vars
  /\ [][(Thermo /\ pc = "debug" /\ ev'.kind = "debug")
        => ((lastDebug' # lastDebug) <=> TrueElapsed(now, lastDebug, DEBUG_INTERVAL_MS))]_vars
  /\ [][(Thermo /\ ev'.kind \in {"check", "TEXT"} /\ ev'.eval
           /\ hasSensorData /\ ~hasSensorData')
        => TrueElapsed(now, lastSensorUpdate, SENSOR_TIMEOUT_MS)]_vars
  /\ []((Thermo /\ ev.kind \in {"check", "TEXT"} /\ ev.eval /\ connected
           /\ currentMode = MODE_AUTO /\ hasSensorData)
          => ~TrueElapsed(now, lastSensorUpdate, SENSOR_TIMEOUT_MS))

(* a reading received before the wrap is tested by a due tick after it, is    *)
(* found fresh and keeps the relay On                                         *)
C33_Witness ==
  /\ Thermo /\ ev.kind = "check" /\ ev.eval /\ connected /\ currentMode = MODE_AUTO
  /\ AcrossWrap(now, lastSensorUpdate) /\ hasSensorData /\ relayState

(* a reading received before the wrap is tested by a due tick after it, is    *)
(* found stale and dropped with the relay Off                                 *)
C33_StaleAcrossWrap ==
  /\ Thermo /\ ev.kind = "check" /\ ev.eval /\ connected /\ currentMode = MODE_AUTO
  /\ AcrossWrap(now, lastSensorUpdate) /\ ev.relayWas /\ ~hasSensorData /\ ~relayState

====
